---- MODULE Spec2Model ----
(***************************************************************************)
(* The POST /validate pipeline of app.py: the handler validate(), the      *)
(* extractor extract_text() and the prompt/parse step validate_text(),     *)
(* with the upload directory they share.  Each worker serves one request;  *)
(* a worker's step is one statement group of the handler, and every access *)
(* to the upload directory (save, extract, unlink) is a step of its own.   *)
(***************************************************************************)
EXTENDS Integers, Sequences, FiniteSets, TLC

VARIABLES
  active,                \* the workers that serve a request in this run
  pc,                    \* each worker's position in validate()
  uploads,               \* the upload directory: path -> bytes of the file there
  form_requirements,     \* the raw "requirements" form field the worker read
  requirements,          \* local: the stripped requirements
  document_file,         \* local: request.files.get("document")
  doc_path,              \* local: where the document is staged
  precent,               \* local: the threshold int(precent)/100
  request_files,         \* the example entries read so far, per example set
  f,                     \* local: the example entry being processed
  path,                  \* local: where that example is staged
  valid_examples_text,   \* local
  invalid_examples_text, \* local
  document_text,         \* local: extract_text(doc_path)
  e,                     \* local: the exception caught at line 176
  prompt,                \* the prompt handed to chat()
  content,               \* local: response.message.content
  responses,             \* the responses the request produced
  log                    \* each worker's file and model operations, in order

vars == <<active, pc, uploads, form_requirements, requirements, document_file,
          doc_path, precent, request_files, f, path, valid_examples_text,
          invalid_examples_text, document_text, e, prompt, content, responses,
          log>>

-----------------------------------------------------------------------------
(* Bounds and input alphabets                                              *)

Workers == {"w1", "w2"}

\* Example entries one request carries, both example sets together.
MaxExamples == 2

\* The same, for each of two requests served side by side.
MaxConcurrentExamples == 1

Solo == Cardinality(active) = 1

ExampleSets == {"valid", "invalid"}

Whitespace == {" ", "\t", "\n"}

\* A form field: absent from the form, or present with a value (characters).
Absent == [present |-> FALSE, value |-> <<>>]
Field(chars) == [present |-> TRUE, value |-> chars]

RequirementsInputs ==
  IF Solo
  THEN {Absent, Field(<<>>), Field(<<" ">>), Field(<<" ", "\n">>),
        Field(<<"r">>), Field(<<" ", "q", " ">>)}
  ELSE {Field(<<>>), Field(<<"r">>)}

PercentInputs ==
  IF Solo
  THEN {Absent, Field(<<"a">>), Field(<<"7", "0">>), Field(<<"1", "0", "0">>),
        Field(<<"1", "0", "1">>), Field(<<"-", "1">>)}
  ELSE {Absent, Field(<<"7", "0">>)}

\* A client-supplied filename: directory part, stem and suffix.
EmptyName == [dir |-> "", stem |-> "", ext |-> ""]
PdfName == [dir |-> "", stem |-> "a", ext |-> ".pdf"]
DocxName == [dir |-> "", stem |-> "b", ext |-> ".DOCX"]
TxtName == [dir |-> "", stem |-> "c", ext |-> ".txt"]
SubdirName == [dir |-> "gone", stem |-> "a", ext |-> ".pdf"]

FileNames ==
  IF Solo THEN {PdfName, DocxName, TxtName, SubdirName} ELSE {PdfName, TxtName}

\* The bytes of an upload: whether fitz/docx can open them, the text of their
\* pages or paragraphs, and the request they were uploaded with.
Bytes(w, readable, parts) == [readable |-> readable, parts |-> parts, by |-> w]

Streams(w) ==
  IF Solo
  THEN {Bytes(w, FALSE, <<>>), Bytes(w, TRUE, <<>>), Bytes(w, TRUE, <<"x", "y">>)}
  ELSE {Bytes(w, FALSE, <<>>), Bytes(w, TRUE, <<"x">>)}

\* A werkzeug FileStorage, or None (present = FALSE).
NoFile == [present |-> FALSE, filename |-> EmptyName,
           stream |-> [readable |-> FALSE, parts |-> <<>>, by |-> ""]]
FileStorage(name, bytes) == [present |-> TRUE, filename |-> name, stream |-> bytes]

\* A browser's empty file input: a part with an empty filename and no bytes.
EmptyInput(w) == FileStorage(EmptyName, Bytes(w, FALSE, <<>>))

FileInputs(w) ==
  {EmptyInput(w)} \cup {FileStorage(n, b) : n \in FileNames, b \in Streams(w)}

-----------------------------------------------------------------------------
(* Form fields: request.form.get(name, "") and str.strip()                 *)

FormGet(field, default) == IF field.present THEN field.value ELSE default

RECURSIVE lstrip(_)
lstrip(s) ==
  IF s # <<>> /\ Head(s) \in Whitespace THEN lstrip(Tail(s)) ELSE s

RECURSIVE rstrip(_)
rstrip(s) ==
  IF s # <<>> /\ s[Len(s)] \in Whitespace
  THEN rstrip(SubSeq(s, 1, Len(s) - 1))
  ELSE s

\* A faulty variant of strip: the .strip() forgotten.
strip_Forgotten(s) == s

strip(s) == rstrip(lstrip(s))

-----------------------------------------------------------------------------
(* int(precent) / 100                                                      *)

Digits == {"0", "1", "2", "3", "4", "5", "6", "7", "8", "9"}

DigitValue(c) ==
  CASE c = "0" -> 0 [] c = "1" -> 1 [] c = "2" -> 2 [] c = "3" -> 3
    [] c = "4" -> 4 [] c = "5" -> 5 [] c = "6" -> 6 [] c = "7" -> 7
    [] c = "8" -> 8 [] c = "9" -> 9

RECURSIVE DigitsValue(_)
DigitsValue(s) ==
  IF s = <<>> THEN 0
  ELSE 10 * DigitsValue(SubSeq(s, 1, Len(s) - 1)) + DigitValue(s[Len(s)])

Unsigned(s) == IF s # <<>> /\ Head(s) \in {"+", "-"} THEN Tail(s) ELSE s

\* Whether int(s) accepts s: optional sign, then one or more digits, with
\* surrounding whitespace ignored.  Anything else raises ValueError.
IsIntLiteral(s) ==
  LET d == Unsigned(strip(s))
  IN d # <<>> /\ \A i \in 1..Len(d) : d[i] \in Digits

int(s) ==
  LET t == strip(s)
  IN IF t # <<>> /\ Head(t) = "-"
     THEN 0 - DigitsValue(Unsigned(t))
     ELSE DigitsValue(Unsigned(t))

\* The float int(precent)/100, kept exact as a fraction.
Threshold(n) == [num |-> n, den |-> 100]

NoThreshold == [num |-> 0, den |-> 0]

-----------------------------------------------------------------------------
(* Paths and the upload directory                                          *)

UPLOAD_FOLDER == "uploads"

\* app.config["UPLOAD_FOLDER"] / filename
PathOf(filename) ==
  [parent |-> IF filename.dir = "" THEN UPLOAD_FOLDER
              ELSE UPLOAD_FOLDER \o "/" \o filename.dir,
   stem |-> filename.stem, ext |-> filename.ext]

NoPath == [parent |-> "", stem |-> "", ext |-> ""]

\* UPLOAD_FOLDER.mkdir(exist_ok=True): the only directory that exists.
ExistingDirs == {UPLOAD_FOLDER}

\* A faulty variant of CanSave: the file opened for exclusive creation.
CanSave_Exclusive(p) == p.parent \in ExistingDirs /\ p \notin DOMAIN uploads

\* FileStorage.save(path) opens path for writing: it raises when the parent
\* directory does not exist.
CanSave(p) == p.parent \in ExistingDirs

Exists(dir, p) == p \in DOMAIN dir

\* FileStorage.save: the file at p now holds the uploaded bytes, whatever
\* was there before.
Saved(dir, p, bytes) ==
  [q \in DOMAIN dir \cup {p} |-> IF q = p THEN bytes ELSE dir[q]]

\* Path.unlink(missing_ok=True)
Unlinked(dir, p) == [q \in DOMAIN dir \ {p} |-> dir[q]]

-----------------------------------------------------------------------------
(* extract_text                                                            *)

\* str.lower() on the suffixes that occur.
lower(s) ==
  CASE s = ".PDF" -> ".pdf"
    [] s = ".DOCX" -> ".docx"
    [] s = ".TXT" -> ".txt"
    [] OTHER -> s

\* text = ""; for page in pdf: text += page.get_text()
RECURSIVE PdfText(_)
PdfText(pages) ==
  IF pages = <<>> THEN <<>> ELSE <<Head(pages)>> \o PdfText(Tail(pages))

\* "\n".join([p.text for p in doc.paragraphs])
RECURSIVE DocxText(_)
DocxText(paragraphs) ==
  IF paragraphs = <<>> THEN <<>>
  ELSE IF Len(paragraphs) = 1 THEN <<Head(paragraphs)>>
  ELSE <<Head(paragraphs), "\n">> \o DocxText(Tail(paragraphs))

\* What a call returns: text, None, or a raised exception with its message.
Text(t) == [kind |-> "text", text |-> t, msg |-> ""]
None == [kind |-> "none", text |-> <<>>, msg |-> ""]
Raised(msg) == [kind |-> "raise", text |-> <<>>, msg |-> msg]

\* fitz.open / docx.Document on the file at p.
Open(dir, p) ==
  IF ~Exists(dir, p) THEN Raised("no such file")
  ELSE IF ~dir[p].readable THEN Raised("cannot open file")
  ELSE Text(dir[p].parts)

extract_text(dir, p) ==
  LET suffix == lower(p.ext)
  IN IF suffix = ".pdf"
     THEN LET o == Open(dir, p)
          IN IF o.kind = "raise" THEN o ELSE Text(PdfText(o.text))
     ELSE IF suffix = ".docx"
     THEN LET o == Open(dir, p)
          IN IF o.kind = "raise" THEN o ELSE Text(DocxText(o.text))
     ELSE None

\* extract_text(path) + "\n\n---\n\n": None + str raises TypeError.
Separator == "\n\n---\n\n"

TypeErrorMsg == "unsupported operand type(s) for +: 'NoneType' and 'str'"

\* A faulty variant of PlusSeparator: the separator block left out.
PlusSeparator_NoSeparator(r) ==
  IF r.kind = "raise" THEN r
  ELSE IF r.kind = "none" THEN Raised(TypeErrorMsg)
  ELSE Text(r.text)

PlusSeparator(r) ==
  IF r.kind = "raise" THEN r
  ELSE IF r.kind = "none" THEN Raised(TypeErrorMsg)
  ELSE Text(r.text \o <<Separator>>)

\* str(x) inside an f-string.
Str(r) == IF r.kind = "none" THEN <<"None">> ELSE r.text

-----------------------------------------------------------------------------
(* JSON values, the model's reply and json.loads                           *)

\* A JSON value as far as the verdict schema looks at it: its type, the
\* value at key "valid" and the value at key "reasons".
Json(type, valid, reasonsType, items) ==
  [type |-> type, valid |-> valid,
   reasons |-> [type |-> reasonsType, items |-> items]]

\* {"valid": <valid>, "reasons": [<reasons>]}
Verdict(valid, reasons) ==
  Json("object", IF valid THEN "true" ELSE "false", "array", reasons)

NoJson == Json("none", "absent", "absent", <<>>)

\* class ValidOrNot: valid: bool, reasons: list[str]
ValidOrNot(j) ==
  /\ j.type = "object"
  /\ j.valid \in {"true", "false"}
  /\ j.reasons.type = "array"

\* response.message.content: text that is JSON syntax or not, and the value
\* it denotes when it is.
Content(syntax, value) == [json |-> syntax, value |-> value]

\* No reply read yet.
NoContent == Content(FALSE, Json("unset", "absent", "absent", <<>>))

ModelContents ==
  IF Solo
  THEN {Content(FALSE, NoJson),
        Content(TRUE, Verdict(TRUE, <<"score 80%">>)),
        Content(TRUE, Verdict(FALSE, <<"Missing signature section", "no date">>)),
        Content(TRUE, Json("array", "absent", "absent", <<"a">>)),
        Content(TRUE, Json("object", "true", "absent", <<>>)),
        Content(TRUE, Json("object", "string", "array", <<"ok">>))}
  ELSE {Content(FALSE, NoJson), Content(TRUE, Verdict(TRUE, <<"score 80%">>))}

\* chat(...): a reply, or an exception from the transport.
ChatOutcomes ==
  {[raised |-> TRUE, content |-> NoContent]}
    \cup {[raised |-> FALSE, content |-> c] : c \in ModelContents}

\* json.loads(content): the decoded value, or an exception.
json_loads(text) ==
  IF text.json
  THEN [raised |-> FALSE, value |-> text.value]
  ELSE [raised |-> TRUE, value |-> NoJson]

FallbackVerdict == Verdict(FALSE, <<"Invalid JSON returned from model">>)

\* A faulty variant of ParseReply: the fallback returned on every path.
ParseReply_AlwaysFallback(text) == FallbackVerdict

\* validate_text, lines 103-107: try: return json.loads(content)
\* except Exception: return the fallback.
ParseReply(text) ==
  LET r == json_loads(text)
  IN IF r.raised THEN FallbackVerdict ELSE r.value

-----------------------------------------------------------------------------
(* validate_text: the prompt                                               *)

ValidPlaceholder == <<"no valid examples">>
InvalidPlaceholder == <<"no invalid examples">>

\* x or y on strings
Or(x, y) == IF x # <<>> THEN x ELSE y

BuildPrompt(reqs, valid_examples, invalid_examples, doc_text, pct) ==
  [requirements |-> reqs,
   valid_block |-> Or(valid_examples, ValidPlaceholder),
   invalid_block |-> Or(invalid_examples, InvalidPlaceholder),
   document_text |-> Str(doc_text),
   precent |-> pct]

NoPrompt ==
  [requirements |-> <<>>, valid_block |-> <<>>, invalid_block |-> <<>>,
   document_text |-> <<>>, precent |-> NoThreshold]

-----------------------------------------------------------------------------
(* Responses                                                               *)

\* jsonify(body), status
JsonResponse(status, body) == [status |-> status, json |-> TRUE, body |-> body]

\* An exception that leaves validate(): Flask answers 500 with an HTML page.
UncaughtException == [status |-> 500, json |-> FALSE, body |-> NoJson]

NoRequirementsMsg == "no validation requirements were entered"
NoDocumentMsg == "the document to validate was not uploaded"
ValidExampleMsg == "error while processing a valid example: "
InvalidExampleMsg == "error while processing an invalid example: "
DocumentMsg == "could not read the document: "

\* A faulty variant of ExampleMsg: the first loop's message copied into the second.
ExampleMsg_Copied(k) == ValidExampleMsg

ExampleMsg(k) == IF k = "valid" THEN ValidExampleMsg ELSE InvalidExampleMsg

ErrorResponse(status, reason) == JsonResponse(status, Verdict(FALSE, <<reason>>))

\* An entry of the operations log: the operation, the upload it is done for
\* ("document", "valid", "invalid"), its path and whether it went through.
Event(op, for, p, ok) == [op |-> op, for |-> for, path |-> p, ok |-> ok]

-----------------------------------------------------------------------------
(* The handler validate(), one request per worker                          *)

NoExamples == [valid |-> <<>>, invalid |-> <<>>]

InitWith(serving) ==
  /\ active = serving
  /\ pc = [w \in Workers |-> IF w \in serving THEN "requirements" ELSE "idle"]
  /\ uploads = <<>>
  /\ form_requirements = [w \in Workers |-> Absent]
  /\ requirements = [w \in Workers |-> <<>>]
  /\ document_file = [w \in Workers |-> NoFile]
  /\ doc_path = [w \in Workers |-> NoPath]
  /\ precent = [w \in Workers |-> NoThreshold]
  /\ request_files = [w \in Workers |-> NoExamples]
  /\ f = [w \in Workers |-> NoFile]
  /\ path = [w \in Workers |-> NoPath]
  /\ valid_examples_text = [w \in Workers |-> <<>>]
  /\ invalid_examples_text = [w \in Workers |-> <<>>]
  /\ document_text = [w \in Workers |-> None]
  /\ e = [w \in Workers |-> ""]
  /\ prompt = [w \in Workers |-> NoPrompt]
  /\ content = [w \in Workers |-> NoContent]
  /\ responses = [w \in Workers |-> <<>>]
  /\ log = [w \in Workers |-> <<>>]

Init == InitWith({"w1"})

InitConcurrent == InitWith(Workers)

Goto(w, label) == pc' = [pc EXCEPT ![w] = label]

\* return <response>: the request is answered and the handler is left.
Return(w, response) ==
  /\ responses' = [responses EXCEPT ![w] = Append(@, response)]
  /\ Goto(w, "done")

Logged(w, event) == log' = [log EXCEPT ![w] = Append(@, event)]

\* if not requirements
RequirementsMissing(r) == r = <<>>

\* lines 117-122
CheckRequirements(w) ==
  /\ pc[w] = "requirements"
  /\ \E field \in RequirementsInputs :
       LET r == strip(FormGet(field, <<>>))
       IN /\ form_requirements' = [form_requirements EXCEPT ![w] = field]
          /\ requirements' = [requirements EXCEPT ![w] = r]
          /\ IF RequirementsMissing(r)
             THEN Return(w, ErrorResponse(400, NoRequirementsMsg))
             ELSE Goto(w, "document") /\ UNCHANGED responses
  /\ UNCHANGED <<active, content, uploads, document_file, doc_path, precent, request_files,
                 f, path, valid_examples_text, invalid_examples_text,
                 document_text, e, prompt, log>>

\* A faulty variant of Truthy: only None counts as no document.
Truthy_NotNone(file) == file.present

\* bool(FileStorage) is bool(filename); None is false.
Truthy(file) == file.present /\ file.filename # EmptyName

\* lines 125-130
CheckDocument(w) ==
  /\ pc[w] = "document"
  /\ \E file \in {NoFile} \cup FileInputs(w) :
       /\ document_file' = [document_file EXCEPT ![w] = file]
       /\ IF ~Truthy(file)
          THEN Return(w, ErrorResponse(400, NoDocumentMsg))
          ELSE Goto(w, "save_document") /\ UNCHANGED responses
  /\ UNCHANGED <<active, content, uploads, form_requirements, requirements, doc_path,
                 precent, request_files, f, path, valid_examples_text,
                 invalid_examples_text, document_text, e, prompt, log>>

\* lines 133-134: no try around the save
SaveDocument(w) ==
  /\ pc[w] = "save_document"
  /\ LET p == PathOf(document_file[w].filename)
     IN /\ doc_path' = [doc_path EXCEPT ![w] = p]
        /\ Logged(w, Event("save", "document", p, CanSave(p)))
        /\ IF CanSave(p)
           THEN /\ uploads' = Saved(uploads, p, document_file[w].stream)
                /\ Goto(w, "precent")
                /\ UNCHANGED responses
           ELSE /\ Return(w, UncaughtException)
                /\ UNCHANGED uploads
  /\ UNCHANGED <<active, content, form_requirements, requirements, document_file, precent,
                 request_files, f, path, valid_examples_text,
                 invalid_examples_text, document_text, e, prompt>>

\* lines 137-141: no try around int()
ConvertPercent(w) ==
  /\ pc[w] = "precent"
  /\ \E field \in PercentInputs :
       LET s == FormGet(field, <<>>)
       IN IF IsIntLiteral(s)
          THEN /\ precent' = [precent EXCEPT ![w] = Threshold(int(s))]
               /\ Goto(w, "valid_next")
               /\ valid_examples_text' = [valid_examples_text EXCEPT ![w] = <<>>]
               /\ invalid_examples_text' = [invalid_examples_text EXCEPT ![w] = <<>>]
               /\ UNCHANGED responses
          ELSE /\ Return(w, UncaughtException)
               /\ UNCHANGED <<precent, valid_examples_text, invalid_examples_text>>
  /\ UNCHANGED <<active, content, uploads, form_requirements, requirements, document_file,
                 doc_path, request_files, f, path, document_text, e, prompt, log>>

\* The example entries a request may still carry.
ExampleBudget == IF Solo THEN MaxExamples ELSE MaxConcurrentExamples

ExamplesRead(w) == Len(request_files[w].valid) + Len(request_files[w].invalid)

\* The next entry of request.files.getlist(k), or NoFile at the end of the
\* list (the field absent: an empty list).
NextEntries(w) ==
  {NoFile} \cup (IF ExamplesRead(w) < ExampleBudget THEN FileInputs(w) ELSE {})

\* A faulty variant of Skipped: the empty-filename test left out.
Skipped_Never(file) == FALSE

\* if not f.filename: continue
Skipped(file) == file.filename = EmptyName

\* lines 143-146 and 158-161: the loop head of example set k
NextExample(w, k) ==
  /\ pc[w] = k \o "_next"
  /\ \E file \in NextEntries(w) :
       IF ~file.present
       THEN /\ Goto(w, IF k = "valid" THEN "invalid_next" ELSE "extract_document")
            /\ UNCHANGED <<request_files, f>>
       ELSE /\ request_files' =
                 [request_files EXCEPT ![w][k] = Append(@, file)]
            /\ f' = [f EXCEPT ![w] = file]
            /\ Goto(w, IF Skipped(file) THEN k \o "_next" ELSE k \o "_save")
  /\ UNCHANGED <<active, content, uploads, form_requirements, requirements, document_file,
                 doc_path, precent, path, valid_examples_text,
                 invalid_examples_text, document_text, e, prompt, responses, log>>

\* except Exception as e: return jsonify(...), 500   (lines 152-156, 167-171)
ExampleFailed(w, k, msg) == Return(w, ErrorResponse(500, ExampleMsg(k) \o msg))

\* lines 148-149 and 163-164
SaveExample(w, k) ==
  /\ pc[w] = k \o "_save"
  /\ LET p == PathOf(f[w].filename)
     IN /\ path' = [path EXCEPT ![w] = p]
        /\ Logged(w, Event("save", k, p, CanSave(p)))
        /\ IF CanSave(p)
           THEN /\ uploads' = Saved(uploads, p, f[w].stream)
                /\ Goto(w, k \o "_extract")
                /\ UNCHANGED responses
           ELSE /\ ExampleFailed(w, k, "no such directory")
                /\ UNCHANGED uploads
  /\ UNCHANGED <<active, content, form_requirements, requirements, document_file, doc_path,
                 precent, request_files, f, valid_examples_text,
                 invalid_examples_text, document_text, e, prompt>>

\* lines 150 and 165
ExtractExample(w, k) ==
  /\ pc[w] = k \o "_extract"
  /\ LET r == PlusSeparator(extract_text(uploads, path[w]))
     IN /\ Logged(w, Event("extract", k, path[w], r.kind # "raise"))
        /\ IF r.kind = "raise"
           THEN /\ ExampleFailed(w, k, r.msg)
                /\ UNCHANGED <<valid_examples_text, invalid_examples_text>>
           ELSE /\ valid_examples_text' =
                     [valid_examples_text EXCEPT
                        ![w] = IF k = "valid" THEN @ \o r.text ELSE @]
                /\ invalid_examples_text' =
                     [invalid_examples_text EXCEPT
                        ![w] = IF k = "invalid" THEN @ \o r.text ELSE @]
                /\ Goto(w, k \o "_unlink")
                /\ UNCHANGED responses
  /\ UNCHANGED <<active, content, uploads, form_requirements, requirements, document_file,
                 doc_path, precent, request_files, f, path, document_text, e,
                 prompt>>

\* lines 151 and 166
UnlinkExample(w, k) ==
  /\ pc[w] = k \o "_unlink"
  /\ uploads' = Unlinked(uploads, path[w])
  /\ Logged(w, Event("unlink", k, path[w], TRUE))
  /\ Goto(w, k \o "_next")
  /\ UNCHANGED <<active, content, form_requirements, requirements, document_file, doc_path,
                 precent, request_files, f, path, valid_examples_text,
                 invalid_examples_text, document_text, e, prompt, responses>>

\* lines 174-176
ExtractDocument(w) ==
  /\ pc[w] = "extract_document"
  /\ LET r == extract_text(uploads, doc_path[w])
     IN /\ Logged(w, Event("extract", "document", doc_path[w], r.kind # "raise"))
        /\ IF r.kind = "raise"
           THEN /\ e' = [e EXCEPT ![w] = r.msg]
                /\ Goto(w, "except_unlink")
                /\ UNCHANGED document_text
           ELSE /\ document_text' = [document_text EXCEPT ![w] = r]
                /\ Goto(w, "unlink_document")
                /\ UNCHANGED e
  /\ UNCHANGED <<active, content, uploads, form_requirements, requirements, document_file,
                 doc_path, precent, request_files, f, path, valid_examples_text,
                 invalid_examples_text, prompt, responses>>

\* A faulty variant of ExceptUnlink: the unlink in the except block left out.
ExceptUnlink_NoUnlink(w) ==
  /\ pc[w] = "except_unlink"
  /\ Logged(w, Event("unlink", "document", doc_path[w], TRUE))
  /\ Return(w, ErrorResponse(500, DocumentMsg \o e[w]))
  /\ UNCHANGED <<active, content, uploads, form_requirements, requirements,
                 document_file, doc_path, precent, request_files, f, path,
                 valid_examples_text, invalid_examples_text, document_text, e,
                 prompt>>

\* A faulty variant of ExceptUnlink: the return in the except block left out.
ExceptUnlink_FallsThrough(w) ==
  /\ pc[w] = "except_unlink"
  /\ uploads' = Unlinked(uploads, doc_path[w])
  /\ Logged(w, Event("unlink", "document", doc_path[w], TRUE))
  /\ Goto(w, "unlink_document")
  /\ UNCHANGED <<active, content, form_requirements, requirements, document_file,
                 doc_path, precent, request_files, f, path, valid_examples_text,
                 invalid_examples_text, document_text, e, prompt, responses>>

\* lines 177-181
ExceptUnlink(w) ==
  /\ pc[w] = "except_unlink"
  /\ uploads' = Unlinked(uploads, doc_path[w])
  /\ Logged(w, Event("unlink", "document", doc_path[w], TRUE))
  /\ Return(w, ErrorResponse(500, DocumentMsg \o e[w]))
  /\ UNCHANGED <<active, content, form_requirements, requirements, document_file, doc_path,
                 precent, request_files, f, path, valid_examples_text,
                 invalid_examples_text, document_text, e, prompt>>

\* A faulty variant of UnlinkDocument: the document left in place.
UnlinkDocument_Skipped(w) ==
  /\ pc[w] = "unlink_document"
  /\ Goto(w, "validate_text")
  /\ UNCHANGED <<active, content, uploads, form_requirements, requirements,
                 document_file, doc_path, precent, request_files, f, path,
                 valid_examples_text, invalid_examples_text, document_text, e,
                 prompt, responses, log>>

\* line 183
UnlinkDocument(w) ==
  /\ pc[w] = "unlink_document"
  /\ uploads' = Unlinked(uploads, doc_path[w])
  /\ Logged(w, Event("unlink", "document", doc_path[w], TRUE))
  /\ Goto(w, "validate_text")
  /\ UNCHANGED <<active, content, form_requirements, requirements, document_file, doc_path,
                 precent, request_files, f, path, valid_examples_text,
                 invalid_examples_text, document_text, e, prompt, responses>>

\* lines 185-101: validate_text builds the prompt and calls chat()
InvokeModel(w) ==
  /\ pc[w] = "validate_text"
  /\ prompt' = [prompt EXCEPT ![w] =
       BuildPrompt(requirements[w], valid_examples_text[w],
                   invalid_examples_text[w], document_text[w], precent[w])]
  /\ Logged(w, Event("chat", "document", NoPath, TRUE))
  /\ Goto(w, "chat")
  /\ UNCHANGED <<active, content, uploads, form_requirements, requirements, document_file,
                 doc_path, precent, request_files, f, path, valid_examples_text,
                 invalid_examples_text, document_text, e, responses>>

\* lines 96-107 and 192: chat() returns or raises; the reply is parsed and
\* the result is the response.
ModelReturns(w) ==
  /\ pc[w] = "chat"
  /\ \E o \in ChatOutcomes :
       IF o.raised
       THEN /\ Return(w, UncaughtException)
            /\ UNCHANGED content
       ELSE /\ content' = [content EXCEPT ![w] = o.content]
            /\ Return(w, JsonResponse(200, ParseReply(o.content)))
  /\ UNCHANGED <<active, uploads, form_requirements, requirements, document_file,
                 doc_path, precent, request_files, f, path, valid_examples_text,
                 invalid_examples_text, document_text, e, prompt, log>>

Next ==
  \/ \E w \in active : CheckRequirements(w)
  \/ \E w \in active : CheckDocument(w)
  \/ \E w \in active : SaveDocument(w)
  \/ \E w \in active : ConvertPercent(w)
  \/ \E w \in active, k \in ExampleSets : NextExample(w, k)
  \/ \E w \in active, k \in ExampleSets : SaveExample(w, k)
  \/ \E w \in active, k \in ExampleSets : ExtractExample(w, k)
  \/ \E w \in active, k \in ExampleSets : UnlinkExample(w, k)
  \/ \E w \in active : ExtractDocument(w)
  \/ \E w \in active : ExceptUnlink(w)
  \/ \E w \in active : UnlinkDocument(w)
  \/ \E w \in active : InvokeModel(w)
  \/ \E w \in active : ModelReturns(w)

\* One request, served alone.
Spec == Init /\ [][Next]_vars

\* Two requests served side by side by independent workers.
SpecConcurrent == InitConcurrent /\ [][Next]_vars

-----------------------------------------------------------------------------
(* The same request sent twice: "w2" is served once "w1" has been          *)
(* answered, with the same form fields and the same files, against a model *)
(* stub that answers the same prompt the same way.                         *)

Sequential == pc["w1"] = "done" \/ pc["w2"] = "requirements"

\* The same filename and the same bytes.
SameUpload(a, b) ==
  /\ a.present = b.present
  /\ a.filename = b.filename
  /\ a.stream.readable = b.stream.readable
  /\ a.stream.parts = b.stream.parts

\* What the worker has read of its request so far.
ReadRequirements(w) == pc[w] # "requirements"

ReadDocument(w) ==
  pc[w] \notin {"requirements", "document"} /\ requirements[w] # <<>>

ReadPercent(w) ==
  /\ pc[w] \notin {"requirements", "document", "save_document", "precent"}
  /\ \E i \in 1..Len(log[w]) :
       log[w][i].op = "save" /\ log[w][i].for = "document" /\ log[w][i].ok

ReachedDocumentExtraction(w) ==
  \/ pc[w] \in {"extract_document", "except_unlink", "unlink_document",
                "validate_text", "chat"}
  \/ \E i \in 1..Len(log[w]) :
       log[w][i].op = "extract" /\ log[w][i].for = "document"

\* The worker has seen the end of the list of example set k.
ReadAll(w, k) ==
  \/ ReachedDocumentExtraction(w)
  \/ k = "valid" /\ pc[w] \in {"invalid_next", "invalid_save", "invalid_extract",
                               "invalid_unlink"}
  \/ k = "valid" /\ request_files[w].invalid # <<>>

GotChatOutcome(w) ==
  pc[w] = "done" /\ \E i \in 1..Len(log[w]) : log[w][i].op = "chat"

SameInputs ==
  \A a, b \in Workers :
    /\ (ReadRequirements(a) /\ ReadRequirements(b))
         => form_requirements[a] = form_requirements[b]
    /\ (ReadDocument(a) /\ ReadDocument(b))
         => SameUpload(document_file[a], document_file[b])
    /\ (ReadPercent(a) /\ ReadPercent(b)) => precent[a] = precent[b]
    /\ \A k \in ExampleSets :
         /\ \A i \in 1..Len(request_files[a][k]) :
              i <= Len(request_files[b][k])
                => SameUpload(request_files[a][k][i], request_files[b][k][i])
         /\ ReadAll(a, k) => Len(request_files[b][k]) <= Len(request_files[a][k])
    /\ (GotChatOutcome(a) /\ GotChatOutcome(b) /\ prompt[a] = prompt[b])
         => content[a] = content[b]

NextRepeat == Next /\ Sequential' /\ SameInputs'

SpecRepeat == InitConcurrent /\ [][NextRepeat]_vars

-----------------------------------------------------------------------------
(* Vocabulary of the properties                                            *)

Done(w) == pc[w] = "done"

Events(w, op) == {i \in 1..Len(log[w]) : log[w][i].op = op}

\* The paths the request wrote a file to.
Staged(w) == {log[w][i].path : i \in {j \in Events(w, "save") : log[w][j].ok}}

ModelInvoked(w) == Events(w, "chat") # {}

ModelReplied(w) == content[w] # NoContent

Response(w) == responses[w][1]

\* A JSON response whose body is {valid: false, reasons: [at least one]}.
IsErrorVerdict(r) ==
  /\ r.json
  /\ ValidOrNot(r.body)
  /\ r.body.valid = "false"
  /\ r.body.reasons.items # <<>>

SupportedSuffixes == {".pdf", ".docx"}

Blank(chars) == \A i \in 1..Len(chars) : chars[i] \in Whitespace

-----------------------------------------------------------------------------
(* Properties                                                              *)

\* C1: once a request is answered, on whatever exit path, no file it staged
\* (the document or an example) is still in the upload directory.
C1_StagedFilesRemoved ==
  \A w \in active :
    Done(w) => \A p \in Staged(w) : ~Exists(uploads, p)

\* C2: a model reply that is not JSON, or is JSON of another shape than
\* {valid: boolean, reasons: list of strings}, makes validate_text return
\* exactly the fallback verdict.
C2_FallbackOnBadReply ==
  \A w \in active :
    (/\ Done(w)
     /\ ModelReplied(w)
     /\ ~(content[w].json /\ ValidOrNot(content[w].value)))
    => responses[w] = <<JsonResponse(200, FallbackVerdict)>>

\* C3: of two requests served side by side, neither overwrites or deletes a
\* file the other staged, and neither extracts from a file the other staged.
C3_NoCrossRequestInterference ==
  [][\A w \in active :
       pc'[w] # pc[w] =>
         /\ \A p \in DOMAIN uploads :
              uploads[p].by # w =>
                p \in DOMAIN uploads' /\ uploads'[p] = uploads[p]
         /\ (pc[w] \in {"valid_extract", "invalid_extract"}
               /\ Exists(uploads, path[w]))
              => uploads[path[w]].by = w
         /\ (pc[w] = "extract_document" /\ Exists(uploads, doc_path[w]))
              => uploads[doc_path[w]].by = w]_vars

\* C4: a request with requirements and a document of a format other than
\* .pdf/.docx, once it comes to extracting the document, ends with a 500
\* error verdict, without the model being invoked and with the staged
\* document deleted.
C4_UnsupportedDocumentIs500 ==
  \A w \in active :
    (/\ Done(w)
     /\ requirements[w] # <<>>
     /\ document_file[w].present
     /\ lower(document_file[w].filename.ext) \notin SupportedSuffixes
     /\ \E i \in Events(w, "extract") : log[w][i].for = "document")
    => /\ Len(responses[w]) = 1
       /\ Response(w).status = 500
       /\ IsErrorVerdict(Response(w))
       /\ ~ModelInvoked(w)
       /\ ~Exists(uploads, doc_path[w])

\* C5: whenever the model is invoked, the threshold in the prompt lies in
\* [0,1]: a percentage outside 0..100 never reaches the model.
C5_ThresholdInUnitInterval ==
  \A w \in active :
    ModelInvoked(w) =>
      /\ 0 <= prompt[w].precent.num
      /\ prompt[w].precent.num <= prompt[w].precent.den

\* C6: a request in which saving or extracting a file failed is answered
\* with a JSON verdict {valid: false, reasons: [...]}, never by an exception
\* that leaves the handler.
C6_FileFailuresAreJsonVerdicts ==
  \A w \in active :
    (Done(w) /\ \E i \in Events(w, "save") \cup Events(w, "extract") : ~log[w][i].ok)
    => Len(responses[w]) = 1 /\ IsErrorVerdict(Response(w))

\* C7: with requirements, a readable .pdf/.docx document and an integer
\* percentage, whatever the model replies, the request gets exactly one
\* response, and its body is a verdict with valid (boolean) and reasons
\* (list of strings).
C7_OneWellFormedVerdict ==
  \A w \in active :
    (/\ Done(w)
     /\ ModelReplied(w)
     /\ requirements[w] # <<>>
     /\ document_file[w].stream.readable
     /\ lower(document_file[w].filename.ext) \in SupportedSuffixes
     /\ precent[w] # NoThreshold)
    => /\ Len(responses[w]) = 1
       /\ Response(w).json
       /\ ValidOrNot(Response(w).body)

\* C8: a request whose requirements field is missing, empty or whitespace is
\* answered 400 with valid = false and the missing-requirements reason;
\* nothing is staged, nothing is extracted, the model is not invoked.
C8_MissingRequirements400 ==
  \A w \in active :
    (pc[w] # "requirements" /\ Blank(FormGet(form_requirements[w], <<>>)))
    => /\ Done(w)
       /\ responses[w] = <<ErrorResponse(400, NoRequirementsMsg)>>
       /\ log[w] = <<>>
       /\ document_file[w] = NoFile
       /\ request_files[w] = NoExamples
       /\ uploads = <<>>

C8_Witness ==
  \E w \in active :
    /\ Done(w)
    /\ form_requirements[w] = Field(<<" ", "\n">>)
    /\ Len(responses[w]) = 1
    /\ Response(w).status = 400

\* C9: a request with requirements but no attached document (no part, or an
\* empty file input) is answered 400 with valid = false; no file is staged,
\* no example is read, nothing is extracted, the model is not invoked.
C9_MissingDocument400 ==
  \A w \in active :
    (/\ pc[w] \notin {"requirements", "document"}
     /\ requirements[w] # <<>>
     /\ (~document_file[w].present \/ document_file[w].filename = EmptyName))
    => /\ Done(w)
       /\ responses[w] = <<ErrorResponse(400, NoDocumentMsg)>>
       /\ log[w] = <<>>
       /\ request_files[w] = NoExamples
       /\ uploads = <<>>

C9_Witness ==
  \E w \in active :
    /\ Done(w)
    /\ requirements[w] = <<"q">>
    /\ document_file[w] = EmptyInput(w)
    /\ Len(responses[w]) = 1
    /\ Response(w).status = 400

ExampleErrors ==
  {"no such directory", "no such file", "cannot open file", TypeErrorMsg}

\* C10: when saving or extracting an example fails, that is the request's
\* last operation (no later example, no document extraction, no model
\* call), and the response is a 500 verdict with valid = false whose reason
\* names the example set that failed.
C10_ExampleFailureAborts ==
  \A w \in active :
    \A i \in 1..Len(log[w]) :
      (log[w][i].for \in ExampleSets /\ ~log[w][i].ok)
      => /\ i = Len(log[w])
         /\ Done(w)
         /\ Len(responses[w]) = 1
         /\ Response(w).status = 500
         /\ IsErrorVerdict(Response(w))
         /\ Response(w).body.reasons.items \in
              {<<(IF log[w][i].for = "valid" THEN ValidExampleMsg
                  ELSE InvalidExampleMsg) \o m>> : m \in ExampleErrors}

C10_Witness ==
  \E w \in active :
    /\ Done(w)
    /\ Len(log[w]) > 0
    /\ log[w][Len(log[w])].for = "invalid"
    /\ log[w][Len(log[w])].op = "extract"
    /\ ~log[w][Len(log[w])].ok
    /\ \E i \in Events(w, "unlink") : log[w][i].for = "valid"
    /\ Response(w).status = 500

DocumentErrors == {"no such file", "cannot open file"}

\* C11: once the document's extraction has been attempted and the handler
\* has moved past its unlink, the staged document is gone, whether the
\* extraction succeeded or raised; when it raised, the request ends with a
\* 500 verdict with valid = false whose reason carries the failure message,
\* and the model is not invoked.
C11_DocumentRemovedAfterExtraction ==
  \A w \in active :
    \A i \in Events(w, "extract") :
      log[w][i].for = "document" =>
        /\ pc[w] \in {"validate_text", "chat", "done"}
             => ~Exists(uploads, doc_path[w])
        /\ ~log[w][i].ok =>
             /\ ~ModelInvoked(w)
             /\ pc[w] \in {"except_unlink", "done"}
             /\ Done(w) =>
                  /\ responses[w] = <<ErrorResponse(500, DocumentMsg \o e[w])>>
                  /\ e[w] \in DocumentErrors

C11_Witness ==
  \E w \in active :
    /\ Done(w)
    /\ doc_path[w] \in Staged(w)
    /\ \E i \in Events(w, "extract") :
         log[w][i].for = "document" /\ ~log[w][i].ok
    /\ e[w] = "cannot open file"
    /\ Response(w).status = 500

\* C12: reading an example entry with an empty filename changes nothing but
\* the position in the list: the handler stays at the loop head, nothing is
\* saved, extracted, deleted or answered, and every local the rest of the
\* request reads is as it was, so what follows runs as if the entry were
\* not there.
C12_EmptyEntrySkipped ==
  [][\A w \in active : \A k \in ExampleSets :
       (/\ Len(request_files'[w][k]) = Len(request_files[w][k]) + 1
        /\ request_files'[w][k][Len(request_files'[w][k])].filename = EmptyName)
       => /\ pc'[w] = pc[w]
          /\ pc[w] = k \o "_next"
          /\ UNCHANGED <<uploads, log, responses, requirements, document_file,
                         doc_path, precent, path, valid_examples_text,
                         invalid_examples_text, document_text, e, prompt,
                         content>>]_vars

C12_Witness ==
  \E w \in active :
    /\ Done(w)
    /\ request_files[w].valid =
         <<EmptyInput(w), FileStorage(DocxName, Bytes(w, TRUE, <<"x", "y">>))>>
    /\ prompt[w].valid_block = <<"x", "\n", "y", Separator>>
    /\ Cardinality(Events(w, "save")) = 2
    /\ Response(w).status = 200

\* C13: when the model's reply is JSON of the shape {valid: boolean,
\* reasons: list of strings}, the response is HTTP 200 with exactly that
\* verdict, whatever the requirements, the threshold and the document text.
C13_VerdictPassedThrough ==
  \A w \in active :
    (/\ Done(w)
     /\ ModelReplied(w)
     /\ content[w].json
     /\ content[w].value.type = "object"
     /\ content[w].value.valid \in {"true", "false"}
     /\ content[w].value.reasons.type = "array")
    => responses[w] =
         <<[status |-> 200, json |-> TRUE, body |-> content[w].value]>>

C13_Witness ==
  \E w \in active :
    /\ Done(w)
    /\ precent[w] = Threshold(70)
    /\ content[w].json
    /\ content[w].value.valid = "false"
    /\ content[w].value.reasons.items = <<"Missing signature section", "no date">>
    /\ Response(w).status = 200
    /\ Response(w).body.reasons.items = <<"Missing signature section", "no date">>

\* C14: two runs of the pipeline on the same requirements, document,
\* percentage and example files, against a deterministic model stub, build
\* the same prompt and return the same response (status and verdict).
C14_SameInputsSameResponse ==
  (Done("w1") /\ Done("w2"))
  => /\ prompt["w1"] = prompt["w2"]
     /\ responses["w1"] = responses["w2"]
     /\ Len(log["w1"]) = Len(log["w2"])

C14_Witness ==
  /\ Done("w1")
  /\ Done("w2")
  /\ Len(request_files["w2"].valid) = 1
  /\ prompt["w2"].valid_block = <<"x", Separator>>
  /\ Len(responses["w2"]) = 1
  /\ responses["w2"][1].status = 200
  /\ responses["w2"][1].body.valid = "true"
  /\ responses["w1"] = responses["w2"]

NonSkipped(w, k) ==
  {i \in 1..Len(request_files[w][k]) : request_files[w][k][i].filename # EmptyName}

\* What has happened in a request by the time the model is invoked.
ChecksPassed(w) ==
  /\ requirements[w] # <<>>
  /\ document_file[w].present
  /\ document_file[w].filename # EmptyName
  /\ \A i \in Events(w, "save") \cup Events(w, "extract") : log[w][i].ok
  /\ \A k \in ExampleSets :
       Cardinality({i \in Events(w, "extract") : log[w][i].for = k})
         = Cardinality(NonSkipped(w, k))
  /\ \E i \in Events(w, "extract") :
       /\ log[w][i].for = "document"
       /\ \A j \in Events(w, "chat") : i < j
  /\ \A j \in Events(w, "chat") : j = Len(log[w])

\* C15 as claimed: the model is invoked at most once per request and only
\* after the checks passed and every extraction went through, and a request
\* answered 400 or 500 never invoked the model.
C15_NoModelCallOn400Or500 ==
  \A w \in active :
    /\ Cardinality(Events(w, "chat")) <= 1
    /\ ModelInvoked(w) => ChecksPassed(w)
    /\ (Done(w) /\ Response(w).status \in {400, 500}) => ~ModelInvoked(w)

\* C15 as amended: the model is invoked at most once per request and only
\* after the checks passed and every extraction went through; a request
\* answered 400 or 500 by the handler's own error verdicts never invoked
\* the model, and a 500 follows an invocation only when the completion call
\* itself raised.
C15_ModelInvokedOnceAfterChecks ==
  \A w \in active :
    /\ Cardinality(Events(w, "chat")) <= 1
    /\ ModelInvoked(w) => ChecksPassed(w)
    /\ (Done(w) /\ Response(w).status \in {400, 500} /\ ModelInvoked(w))
         => /\ ~ModelReplied(w)
            /\ responses[w] = <<[status |-> 500, json |-> FALSE, body |-> NoJson]>>

C15_Witness ==
  \E w \in active :
    /\ Done(w)
    /\ ModelInvoked(w)
    /\ Cardinality(NonSkipped(w, "valid")) = 1
    /\ Cardinality(NonSkipped(w, "invalid")) = 1
    /\ Response(w).status = 500

\* The upload directory holding nothing but the request's own document.
OwnDocumentOnly(w) ==
  Saved(<<>>, PathOf(document_file[w].filename), document_file[w].stream)

\* C16: within one request, staging, extracting and removing the examples
\* leaves the staged document present with the bytes that were uploaded,
\* and the text extracted as the document is the text of those bytes,
\* whatever the examples' filenames are.
C16_ExamplesLeaveDocumentIntact ==
  \A w \in active :
    /\ pc[w] \in {"precent", "valid_next", "valid_save", "valid_extract",
                  "valid_unlink", "invalid_next", "invalid_save",
                  "invalid_extract", "invalid_unlink", "extract_document"}
         => /\ Exists(uploads, doc_path[w])
            /\ uploads[doc_path[w]] = document_file[w].stream
    /\ \A i \in Events(w, "extract") :
         log[w][i].for = "document" =>
           LET own == extract_text(OwnDocumentOnly(w), doc_path[w])
           IN /\ log[w][i].ok = (own.kind # "raise")
              /\ own.kind # "raise" => document_text[w] = own

\* The text of an uploaded file's own bytes.
OwnText(file) ==
  extract_text(Saved(<<>>, PathOf(file.filename), file.stream),
               PathOf(file.filename)).text

\* The non-skipped entries' texts in upload order, each followed by the
\* separator block.
RECURSIVE ExamplesBlock(_)
ExamplesBlock(entries) ==
  IF entries = <<>> THEN <<>>
  ELSE IF Head(entries).filename = EmptyName THEN ExamplesBlock(Tail(entries))
  ELSE OwnText(Head(entries)) \o <<"\n\n---\n\n">> \o ExamplesBlock(Tail(entries))

PromptBlock(w, k) ==
  IF k = "valid" THEN prompt[w].valid_block ELSE prompt[w].invalid_block

Placeholder(k) == IF k = "valid" THEN ValidPlaceholder ELSE InvalidPlaceholder

\* C17: in the prompt, each example set's text is the concatenation, in
\* upload order, of every non-skipped example's extracted text followed by
\* the separator block; the set's placeholder stands there exactly when no
\* example of the set was processed, and never when one was, even one with
\* empty text.
C17_ExampleBlocks ==
  \A w \in active :
    ModelInvoked(w) =>
      \A k \in ExampleSets :
        /\ NonSkipped(w, k) = {} => PromptBlock(w, k) = Placeholder(k)
        /\ NonSkipped(w, k) # {} =>
             /\ PromptBlock(w, k) = ExamplesBlock(request_files[w][k])
             /\ PromptBlock(w, k) # Placeholder(k)

C17_Witness ==
  \E w \in active :
    /\ ModelInvoked(w)
    /\ Len(request_files[w].valid) = 2
    /\ prompt[w].valid_block = <<"x", "\n", "y", Separator, Separator>>
    /\ prompt[w].invalid_block = InvalidPlaceholder

\* C18: for a request served alone, from the moment the completion call is
\* made no file the request staged is in the upload directory: every
\* processed example and the document have been removed, so a call that
\* never returns leaves no staged file behind.
C18_NothingStagedDuringModelCall ==
  \A w \in active :
    ModelInvoked(w) =>
      /\ \A p \in Staged(w) : ~Exists(uploads, p)
      /\ \A i \in Events(w, "save") :
           \E j \in Events(w, "unlink") : i < j /\ log[w][j].path = log[w][i].path

C18_Witness ==
  \E w \in active :
    /\ pc[w] = "chat"
    /\ Cardinality(Staged(w)) = 3
    /\ doc_path[w] \in Staged(w)
    /\ uploads = <<>>

====
